---- MODULE Spec2Model ----
(***************************************************************************)
(* Contacts handlers, ContactsService and the credential layer they call.  *)
(*                                                                         *)
(* Handlers and ContactsService are translated from                        *)
(* src/src/modules/contacts/types.ts.  BaseGoogleService (validateScopes,  *)
(* getAuthenticatedClient), the account manager (withTokenRenewal), the    *)
(* token store, the token refresher and validateEmail are not part of the  *)
(* sources at hand; they are modelled from spec.md sections 4 and 6.       *)
(***************************************************************************)
EXTENDS Integers, FiniteSets, Sequences, TLC

\* ------------------------------------------------------------------ bounds

\* Number of handler invocations that may be in progress together.
NumInv == 2
\* Cap of the per-invocation call counters.
MaxCount == 2

Inv == 1..NumInv
Accounts == {"a1", "a2"}

\* ------------------------------------------------------------------ scopes

READONLY == "https://www.googleapis.com/auth/contacts.readonly"
READWRITE == "https://www.googleapis.com/auth/contacts"

\* The scope strings a token of this model may be granted.
GrantableScopes == {READONLY, READWRITE}

Ops == {"getContacts", "createContact", "updateContact", "deleteContact",
        "searchContacts"}

RequiredScopesAllReadonly(op) == {READONLY}

\* The scope list each ContactsService method hands to validateScopes.
RequiredScopes(op) ==
  IF op \in {"getContacts", "searchContacts"} THEN {READONLY} ELSE {READWRITE}

\* Scope Validator: every required scope present verbatim in the granted set.
ScopesContained(granted, required) == required \subseteq granted

\* ------------------------------------------------------------------ errors

GSE == "GoogleServiceError"
MCP == "McpError"
ERR == "Error"
CTE == "ContactsError"
NONERR == "NonError"

NoErr == [cls |-> "none", ecode |-> "none", code |-> "", details |-> "none",
          dataUrl |-> FALSE]

MkErr(cls, ecode, code, details, dataUrl) ==
  [cls |-> cls, ecode |-> ecode, code |-> code, details |-> details,
   dataUrl |-> dataUrl]

\* error instanceof Error / McpError / GoogleServiceError / ContactsError
IsError(e) == e.cls \in {GSE, MCP, ERR, CTE}
IsMcpError(e) == e.cls \in {GSE, MCP}
IsGoogleServiceError(e) == e.cls = GSE
IsContactsError(e) == e.cls = CTE

ContactsError(code, details) == MkErr(CTE, "none", code, details, FALSE)

\* The remediation (authorization) URL is carried by the error value.
CarriesUrl(e) == e.details = "authUrl" \/ e.dataUrl

\* How an authorization failure carries its URL: a GoogleServiceError with the
\* URL as data.details or in another data field, or a plain McpError.
AuthShapes == {"gse_details", "gse_data", "mcp_data"}

AuthError(kind, shape) ==
  MkErr(IF shape = "mcp_data" THEN MCP ELSE GSE, "InternalError", kind,
        IF shape = "gse_details" THEN "authUrl" ELSE "hint",
        shape # "gse_details")

TransientError == MkErr(GSE, "InternalError", "TransientProviderError", "hint", FALSE)
StorageError == MkErr(GSE, "InternalError", "StorageError", "hint", FALSE)

InvalidParams == MkErr(MCP, "InvalidParams", "", "none", FALSE)

\* ------------------------------------------------------- error mapping

handleContactErrorRethrow(error) ==
  IF IsGoogleServiceError(error)
  THEN ContactsError(IF error.code # "" THEN error.code ELSE "GOOGLE_SERVICE_ERROR",
                     error.details)
  ELSE IF IsError(error)
  THEN ContactsError("UNKNOWN_API_ERROR", "none")
  ELSE error

\* ContactsService.handleContactError: the catch of create, update, delete
\* and search.
handleContactError(error) ==
  IF IsGoogleServiceError(error)
  THEN ContactsError(IF error.code # "" THEN error.code ELSE "GOOGLE_SERVICE_ERROR",
                     error.details)
  ELSE IF IsError(error)
  THEN ContactsError("UNKNOWN_API_ERROR", "none")
  ELSE ContactsError("UNKNOWN_INTERNAL_ERROR", "none")

getContactsCatchNoFallback(error) ==
  IF IsGoogleServiceError(error)
  THEN ContactsError(error.code, error.details)
  ELSE IF IsError(error)
  THEN ContactsError("UNKNOWN_API_ERROR", "none")
  ELSE ContactsError("UNKNOWN_INTERNAL_ERROR", "none")

\* The catch block written out in getContacts.
getContactsCatch(error) ==
  IF IsGoogleServiceError(error)
  THEN ContactsError(IF error.code # "" THEN error.code ELSE "GOOGLE_SERVICE_ERROR",
                     error.details)
  ELSE IF IsError(error)
  THEN ContactsError("UNKNOWN_API_ERROR", "none")
  ELSE ContactsError("UNKNOWN_INTERNAL_ERROR", "none")

\* The error a ContactsService method throws for an error caught in its try.
ServiceCatch(op, error) ==
  IF op = "getContacts" THEN getContactsCatch(error) ELSE handleContactError(error)

\* The catch of the callback every handler passes to withTokenRenewal.
HandlerCatch(error) ==
  IF IsContactsError(error)
  THEN MkErr(MCP, "InternalError", error.code, error.details, FALSE)
  ELSE IF IsMcpError(error)
  THEN error
  ELSE MkErr(MCP, "InternalError", "", "none", FALSE)

\* The error thrown when a 2xx response carries no resourceName.
IncompleteResponseError(op) ==
  IF op = "createContact" THEN ContactsError("CREATE_ERROR", "incomplete")
  ELSE ContactsError("UPDATE_ERROR", "incomplete")

\* The methods that check response.data.resourceName.
ChecksResourceName(op) == op \in {"createContact", "updateContact"}

\* -------------------------------------------------------------- parameters

Emails == {"", "not-an-email"} \cup Accounts

\* utils/account validateEmail: a syntactic check of the account identity.
ValidEmail(email) == email \in Accounts

\* The required (non-optional, non-email) fields of each Params interface.
ParamFields(op) ==
  CASE op = "getContacts" -> {"personFields"}
    [] op = "createContact" -> {"contact"}
    [] op = "updateContact" -> {"resourceName", "contact"}
    [] op = "deleteContact" -> {"resourceName"}
    [] op = "searchContacts" -> {"query"}

HandlerParamsOkEmailOnly(op, email, present) ==
  email # "" /\ ValidEmail(email)

\* The checks each handler makes before accountManager.withTokenRenewal.
HandlerParamsOk(op, email, present) ==
  /\ email # ""
  /\ ValidEmail(email)
  /\ CASE op = "getContacts" -> "personFields" \in present
       [] op = "createContact" -> "contact" \in present
       [] op = "updateContact" -> "resourceName" \in present /\ "contact" \in present
       [] op = "deleteContact" -> "resourceName" \in present
       [] op = "searchContacts" -> "query" \in present

\* The check each ContactsService method makes before its try block.
ServiceParamsOk(op, present) ==
  CASE op = "getContacts" -> "personFields" \in present
    [] op = "createContact" -> "contact" \in present
    [] op = "updateContact" -> "resourceName" \in present /\ "contact" \in present
    [] op = "deleteContact" -> "resourceName" \in present
    [] op = "searchContacts" -> "query" \in present

\* ------------------------------------------------------------------- state

VARIABLES
  token,            \* Token Store: account -> Token Record (NoToken if none)
  inflight,         \* account -> refresh exchanges in flight
  inv,              \* invocation -> its position and what it did
  contactsService,  \* ContactsService instances constructed
  accountManager    \* getAccountManager calls made by initializeServices

vars == <<token, inflight, inv, contactsService, accountManager>>

NoToken == [scopes |-> {}, expiring |-> FALSE, present |-> FALSE]

HasToken(a) == token[a].present

IdleInv ==
  [pc |-> "idle", op |-> "none", email |-> "", present |-> {},
   failedAt |-> "none", raised |-> NoErr, svcErr |-> NoErr, out |-> NoErr,
   nRenew |-> 0, nVal |-> 0, nAcq |-> 0, nBuild |-> 0, nApi |-> 0,
   valRead |-> FALSE, valGranted |-> {}, builtSufficient |-> "na",
   staleRead |-> FALSE,
   api |-> "none",
   client |-> 0, svc |-> 0, mgr |-> 0]

Inc(n) == IF n < MaxCount THEN n + 1 ELSE n

Init ==
  /\ token \in [Accounts ->
       {NoToken} \cup
       [scopes : SUBSET GrantableScopes, expiring : BOOLEAN, present : {TRUE}]]
  /\ inflight = [a \in Accounts |-> 0]
  /\ inv = [i \in Inv |-> IdleInv]
  /\ contactsService = 0
  /\ accountManager = 0

\* ------------------------------------------------- control flow of a method

SvcOnThrowContinue(stage) == IF stage = "validate" THEN "acquire" ELSE "done"

SvcOnThrowRetry(stage) == IF stage = "api" THEN "validate" ELSE "done"

\* Where a ContactsService method goes when a step of its try block throws:
\* into its catch, which throws; the attempt is over.
SvcOnThrow(stage) == "done"

\* A step of the try block of a service method threw `error`: the method's
\* catch maps it, the handler's callback catch maps that, and withTokenRenewal
\* passes the callback's failure on.
FailInService(r, stage, error) ==
  LET se == ServiceCatch(r.op, error) IN
  [r EXCEPT !.pc = SvcOnThrow(stage),
            !.failedAt = IF r.failedAt = "none" THEN stage ELSE @,
            !.raised = IF r.failedAt = "none" THEN error ELSE @,
            !.svcErr = se,
            !.out = HandlerCatch(se)]

\* withTokenRenewal failed before it ran the callback.
FailInRenewal(r, error) ==
  [r EXCEPT !.pc = "done", !.failedAt = "renew", !.raised = error, !.out = error]

\* withTokenRenewal runs the callback, which calls the service method: its
\* parameter check, then the try block, whose first step is validateScopes.
EnterService(r) ==
  IF ServiceParamsOk(r.op, r.present)
  THEN [r EXCEPT !.pc = "validate", !.svc = contactsService]
  ELSE LET e == ContactsError("INVALID_PARAMS", "hint") IN
       [r EXCEPT !.pc = "done", !.failedAt = "svcParams", !.raised = e,
                 !.svcErr = e, !.out = HandlerCatch(e),
                 !.svc = contactsService]

\* getPeopleClient passes getAuthenticatedClient the account and the builder,
\* and no scope list.
FactoryRequiredScopes == {}

\* The client handles built so far for account a. A handle is named by the
\* invocation whose getAuthenticatedClient call ran the builder that made it.
PriorClients(a) ==
  {inv[j].client : j \in {k \in Inv : inv[k].email = a /\ inv[k].client # 0}}

\* BaseGoogleService.getAuthenticatedClient(email, clientFactory), called by
\* invocation i: the handle it returns. The handle is made by this call's
\* own run of the builder; no earlier handle is kept.
getAuthenticatedClient(i, prior) == i

getPeopleClientCached(i, prior) ==
  IF prior = {} THEN getAuthenticatedClient(i, prior) ELSE CHOOSE c \in prior : TRUE

\* ContactsService.getPeopleClient(email): every call goes to
\* getAuthenticatedClient with a new builder closure; the service holds no
\* field for the result.
getPeopleClient(i, prior) == getAuthenticatedClient(i, prior)

\* Steps 3 and 4 of getAuthenticatedClient on the record `rec`, then the
\* People API request of the method, issued on the handle `const peopleApi`.
BuildClient(i, r, rec) ==
  IF ScopesContained(rec.scopes, FactoryRequiredScopes)
  THEN [r EXCEPT !.pc = "api",
                 !.client = getPeopleClient(i, PriorClients(r.email)),
                 !.nBuild = IF getPeopleClient(i, PriorClients(r.email)) = i
                            THEN Inc(@) ELSE @,
                 !.nApi = Inc(@),
                 !.builtSufficient =
                    IF ScopesContained(rec.scopes, RequiredScopes(r.op))
                    THEN "yes" ELSE "no"]
  ELSE FailInService(r, "scope", AuthError("InsufficientScope", "gse_details"))

EnsureFreshNoDedup(n) == n + 1

\* Token Refresher: a caller that finds a refresh in flight for the account
\* attaches to it; otherwise it starts the exchange.
EnsureFresh(n) == IF n = 0 THEN 1 ELSE n

\* ----------------------------------------------------------------- actions

initializeServicesAlways(n) == n + 1

\* initializeServices, for either module-level singleton: n instances have
\* been made so far; one is made only if the variable is still unset. The
\* function has no await between the test and the assignment.
initializeServices(n) == IF n = 0 THEN 1 ELSE n

\* A handler is called and runs to its first suspension point,
\* `await initializeServices()`.
InitializeServices(i) ==
  /\ inv[i].pc = "idle"
  /\ contactsService' = initializeServices(contactsService)
  /\ accountManager' = initializeServices(accountManager)
  /\ inv' = [inv EXCEPT ![i].pc = "init"]
  /\ UNCHANGED <<token, inflight>>

\* handleGetContacts .. handleSearchContacts from the return of
\* initializeServices up to the accountManager.withTokenRenewal call.
HandleStart(i, op, email, present) ==
  /\ inv[i].pc = "init"
  /\ UNCHANGED <<contactsService, accountManager>>
  /\ inv' = [inv EXCEPT ![i] =
       LET r == [@ EXCEPT !.op = op, !.email = email, !.present = present] IN
       IF HandlerParamsOk(op, email, present)
       THEN [r EXCEPT !.pc = "renew", !.nRenew = Inc(@),
                      !.mgr = accountManager]
       ELSE [r EXCEPT !.pc = "done", !.failedAt = "params",
                      !.raised = InvalidParams, !.out = InvalidParams]]
  /\ UNCHANGED <<token, inflight>>

\* Token Store get, as the account manager and BaseGoogleService use it: the
\* error it ends in, NoErr when the account's record is returned.
LoadToken(a, loadOk, shape) ==
  IF ~loadOk THEN StorageError
  ELSE IF ~HasToken(a) THEN AuthError("NotAuthenticated", shape)
  ELSE NoErr

\* BaseGoogleService.validateScopes(email, required): the error it throws,
\* NoErr when it returns.
validateScopes(a, required, loadOk, shape) ==
  IF LoadToken(a, loadOk, shape) # NoErr THEN LoadToken(a, loadOk, shape)
  ELSE IF ~ScopesContained(token[a].scopes, required)
  THEN AuthError("InsufficientScope", shape)
  ELSE NoErr

\* accountManager.withTokenRenewal(email, callback): load, ensureFresh, run.
WithTokenRenewal(i, loadOk, shape) ==
  LET r == inv[i]
      a == r.email
      e == LoadToken(a, loadOk, shape)
  IN
  /\ r.pc = "renew"
  /\ IF e # NoErr
     THEN /\ inv' = [inv EXCEPT ![i] = FailInRenewal(r, e)]
          /\ UNCHANGED inflight
     ELSE IF token[a].expiring
     THEN /\ inv' = [inv EXCEPT ![i] = [r EXCEPT !.pc = "renewWait"]]
          /\ inflight' = [inflight EXCEPT ![a] = EnsureFresh(@)]
     ELSE /\ inv' = [inv EXCEPT ![i] = EnterService(r)]
          /\ UNCHANGED inflight
  /\ UNCHANGED <<token, contactsService, accountManager>>

\* await this.validateScopes(email, [scope]) in a service method.
SvcValidate(i, loadOk, shape) ==
  LET r == inv[i]
      a == r.email
      e == validateScopes(a, RequiredScopes(r.op), loadOk, shape)
      r1 == IF LoadToken(a, loadOk, shape) = NoErr
            THEN [r EXCEPT !.nVal = Inc(@), !.valRead = TRUE,
                           !.valGranted = token[a].scopes]
            ELSE [r EXCEPT !.nVal = Inc(@)]
  IN
  /\ r.pc = "validate"
  /\ inv' = [inv EXCEPT ![i] =
       IF e # NoErr
       THEN FailInService(r1, "validate", e)
       ELSE [r1 EXCEPT !.pc = "acquire"]]
  /\ UNCHANGED <<token, inflight, contactsService, accountManager>>

\* const peopleApi = await this.getPeopleClient(email), then the API request:
\* getAuthenticatedClient loads the record, calls ensureFresh, validates the
\* scopes it was given and runs the builder.
SvcAcquire(i, loadOk, shape) ==
  LET r == inv[i]
      a == r.email
      e == LoadToken(a, loadOk, shape)
      r1 == [r EXCEPT !.nAcq = Inc(@)]
  IN
  /\ r.pc = "acquire"
  /\ IF e # NoErr
     THEN /\ inv' = [inv EXCEPT ![i] = FailInService(r1, "load", e)]
          /\ UNCHANGED inflight
     ELSE IF token[a].expiring
     THEN /\ inv' = [inv EXCEPT ![i] = [r1 EXCEPT !.pc = "acquireWait"]]
          /\ inflight' = [inflight EXCEPT ![a] = EnsureFresh(@)]
     ELSE /\ inv' = [inv EXCEPT ![i] = BuildClient(i, r1, token[a])]
          /\ UNCHANGED inflight
  /\ UNCHANGED <<token, contactsService, accountManager>>

Waiting(i, a) ==
  inv[i].email = a /\ inv[i].pc \in {"renewWait", "acquireWait"}

\* A waiter of a failed refresh: withTokenRenewal throws to the handler's
\* caller, getAuthenticatedClient throws into the method's catch.
RefreshFailed(r, error) ==
  IF r.pc = "renewWait" THEN FailInRenewal(r, error)
  ELSE FailInService(r, "refresh", error)

\* The provider answers the account's refresh exchange with a new access
\* credential and the granted scope set; the record is saved and every
\* caller awaiting the exchange goes on with the new record.
RefreshOk(a, granted) ==
  LET new == [scopes |-> granted, expiring |-> FALSE, present |-> TRUE] IN
  /\ inflight[a] > 0
  /\ HasToken(a)
  /\ granted \subseteq token[a].scopes
  /\ token' = [token EXCEPT ![a] = new]
  /\ inflight' = [inflight EXCEPT ![a] = @ - 1]
  /\ inv' = [i \in Inv |->
       IF ~Waiting(i, a) THEN inv[i]
       ELSE IF inv[i].pc = "renewWait"
       THEN EnterService(inv[i])
       ELSE BuildClient(i, [inv[i] EXCEPT !.staleRead = (inv[i].nVal > 0)], new)]
  /\ UNCHANGED <<contactsService, accountManager>>

\* The provider rejects the refresh credential.
RefreshRejected(a, shape) ==
  /\ inflight[a] > 0
  /\ inflight' = [inflight EXCEPT ![a] = @ - 1]
  /\ inv' = [i \in Inv |->
       IF Waiting(i, a)
       THEN RefreshFailed(inv[i], AuthError("ReauthorizationRequired", shape))
       ELSE inv[i]]
  /\ UNCHANGED <<token, contactsService, accountManager>>

\* The exchange fails in transit (network, timeout, 5xx).
RefreshTransient(a) ==
  /\ inflight[a] > 0
  /\ inflight' = [inflight EXCEPT ![a] = @ - 1]
  /\ inv' = [i \in Inv |->
       IF Waiting(i, a) THEN RefreshFailed(inv[i], TransientError) ELSE inv[i]]
  /\ UNCHANGED <<token, contactsService, accountManager>>

ApiOutcomes == {"ok", "incomplete", "gse_code", "gse_nocode", "error", "nonerror"}

\* What the awaited People API call throws for an outcome.
ApiError(outcome) ==
  CASE outcome = "gse_code" -> MkErr(GSE, "InternalError", "NotFound", "hint", FALSE)
    [] outcome = "gse_nocode" -> MkErr(GSE, "InternalError", "", "none", FALSE)
    [] outcome = "error" -> MkErr(ERR, "none", "", "none", FALSE)
    [] outcome = "nonerror" -> MkErr(NONERR, "none", "", "none", FALSE)

\* The awaited People API call settles; the rest of the try block runs.
ApiReturn(i, outcome) ==
  LET r == [inv[i] EXCEPT !.api = outcome] IN
  /\ inv[i].pc = "api"
  /\ inv' = [inv EXCEPT ![i] =
       IF outcome = "ok" THEN [r EXCEPT !.pc = "done"]
       ELSE IF outcome = "incomplete"
       THEN IF ChecksResourceName(r.op)
            THEN FailInService(r, "response", IncompleteResponseError(r.op))
            ELSE [r EXCEPT !.pc = "done"]
       ELSE FailInService(r, "api", ApiError(outcome))]
  /\ UNCHANGED <<token, inflight, contactsService, accountManager>>

\* Time passes: the account's token comes within the safety margin of expiry.
Expire(a) ==
  /\ HasToken(a)
  /\ ~token[a].expiring
  /\ token' = [token EXCEPT ![a].expiring = TRUE]
  /\ UNCHANGED <<inflight, inv, contactsService, accountManager>>

\* Another caller of the account manager (a handler of another service of the
\* host) finds the account's token expiring and calls ensureFresh.
PeerRefresh(a) ==
  /\ HasToken(a)
  /\ token[a].expiring
  /\ inflight' = [inflight EXCEPT ![a] = EnsureFresh(@)]
  /\ inflight'[a] # inflight[a]
  /\ UNCHANGED <<token, inv, contactsService, accountManager>>

\* One handler invocation, with every input and every failure of every step.
Solo == {1}

Next ==
  \/ \E i \in Solo : InitializeServices(i)
  \/ \E i \in Solo, op \in Ops, email \in Emails :
       \E present \in SUBSET ParamFields(op) : HandleStart(i, op, email, present)
  \/ \E i \in Solo, loadOk \in BOOLEAN, shape \in AuthShapes :
       WithTokenRenewal(i, loadOk, shape)
  \/ \E i \in Solo, loadOk \in BOOLEAN, shape \in AuthShapes :
       SvcValidate(i, loadOk, shape)
  \/ \E i \in Solo, loadOk \in BOOLEAN, shape \in AuthShapes :
       SvcAcquire(i, loadOk, shape)
  \/ \E a \in Accounts, granted \in SUBSET GrantableScopes : RefreshOk(a, granted)
  \/ \E a \in Accounts, shape \in AuthShapes : RefreshRejected(a, shape)
  \/ \E a \in Accounts : RefreshTransient(a)
  \/ \E i \in Solo, outcome \in ApiOutcomes : ApiReturn(i, outcome)
  \/ \E a \in Accounts : Expire(a)
  \/ \E a \in Accounts : PeerRefresh(a)

Spec == Init /\ [][Next]_vars

\* NumInv concurrent handler invocations with well-formed requests; the
\* failures left are those of the refresh exchange and of the API call.
ConcOps == {"getContacts", "createContact"}
ConcShapes == {"gse_details"}
ConcApiOutcomes == {"ok", "error"}

NextConc ==
  \/ \E i \in Inv : InitializeServices(i)
  \/ \E i \in Inv, op \in ConcOps, email \in Accounts :
       HandleStart(i, op, email, ParamFields(op))
  \/ \E i \in Inv, shape \in ConcShapes : WithTokenRenewal(i, TRUE, shape)
  \/ \E i \in Inv, shape \in ConcShapes : SvcValidate(i, TRUE, shape)
  \/ \E i \in Inv, shape \in ConcShapes : SvcAcquire(i, TRUE, shape)
  \/ \E a \in Accounts : RefreshOk(a, token[a].scopes)
  \/ \E a \in Accounts, shape \in ConcShapes : RefreshRejected(a, shape)
  \/ \E a \in Accounts : RefreshTransient(a)
  \/ \E i \in Inv, outcome \in ConcApiOutcomes : ApiReturn(i, outcome)
  \/ \E a \in Accounts : Expire(a)

InitConc ==
  /\ Init
  /\ \A a \in Accounts :
       HasToken(a) => token[a].scopes \in {{READONLY}, {READONLY, READWRITE}}

SpecConc == InitConc /\ [][NextConc]_vars

\* ------------------------------------------------------------------ claims

\* The stages of a service method's try block.
SvcStages == {"validate", "load", "refresh", "scope", "api", "response"}

Done(i) == inv[i].pc = "done"

\* C1: the token in force when the client builder runs grants every scope
\* the operation requires, in every reachable state.
C1_ClientNeverInsufficient ==
  \A i \in Inv : inv[i].builtSufficient # "no"

\* C2: when scope validation or token loading (or the refresh before the
\* build) fails in a service method, neither the client builder nor a People
\* API call is invoked in that attempt.
C2_ShortCircuit ==
  \A i \in Inv :
    inv[i].failedAt \in {"validate", "load", "refresh", "scope"}
      => inv[i].nBuild = 0 /\ inv[i].nApi = 0

\* A service method whose validateScopes found a scope missing has finished.
C2_Witness ==
  \E i \in Inv :
    /\ Done(i)
    /\ inv[i].failedAt = "validate"
    /\ inv[i].raised.code = "InsufficientScope"
    /\ inv[i].nVal = 1

\* C3: a create (update) whose 2xx response omits resourceName leaves the
\* method with code CREATE_ERROR (UPDATE_ERROR), not an unknown-error code.
C3_IncompleteResponseCode ==
  \A i \in Inv :
    (Done(i) /\ inv[i].api = "incomplete" /\ ChecksResourceName(inv[i].op))
      => /\ inv[i].svcErr.code =
              (IF inv[i].op = "createContact" THEN "CREATE_ERROR" ELSE "UPDATE_ERROR")
         /\ inv[i].svcErr.code \notin {"UNKNOWN_API_ERROR", "UNKNOWN_INTERNAL_ERROR"}

\* C4: an authorization failure raised with a remediation URL during a
\* contacts operation is surfaced by the handler still carrying that URL.
C4_RemediationUrlSurfaced ==
  \A i \in Inv :
    (Done(i) /\ CarriesUrl(inv[i].raised)) => CarriesUrl(inv[i].out)

\* The codes a ContactsError of this module is constructed with, and the
\* data.code values of the credential layer's errors.
ContactsErrorCodes ==
  {"INVALID_PARAMS", "GOOGLE_SERVICE_ERROR", "UNKNOWN_API_ERROR",
   "UNKNOWN_INTERNAL_ERROR", "CREATE_ERROR", "UPDATE_ERROR",
   "NotAuthenticated", "ReauthorizationRequired", "InsufficientScope",
   "TransientProviderError", "StorageError", "NotFound"}

\* C5: whatever fails in a service method, what leaves the method is a
\* ContactsError with a code of the closed set, and what leaves the handler's
\* callback is an McpError.
C5_TaxonomyClosure ==
  \A i \in Inv :
    /\ inv[i].failedAt \in SvcStages \cup {"svcParams"}
         => /\ inv[i].svcErr.cls = CTE
            /\ inv[i].svcErr.code \in ContactsErrorCodes
            /\ inv[i].out.cls = MCP
    /\ inv[i].svcErr # NoErr => inv[i].svcErr.cls = CTE

\* The People API call of a method other than getContacts threw a value that
\* is not an Error.
C5_Witness ==
  \E i \in Inv :
    /\ Done(i)
    /\ inv[i].op = "deleteContact"
    /\ inv[i].failedAt = "api"
    /\ inv[i].raised.cls = NONERR
    /\ inv[i].svcErr.code = "UNKNOWN_INTERNAL_ERROR"

\* C6: per account at most one refresh exchange is in flight; the callers
\* that find the token expiring all await that one exchange (and no other
\* account's), and the step that ends it releases every one of them with its
\* result.
C6_SingleInflightRefresh ==
  /\ [](\A a \in Accounts :
          /\ inflight[a] <= 1
          /\ \A i \in Inv : Waiting(i, a) => inflight[a] = 1)
  /\ [][\A a \in Accounts :
          inflight'[a] < inflight[a]
            => \A i \in Inv :
                 Waiting(i, a) => inv'[i].pc \notin {"renewWait", "acquireWait"}]_vars

\* Two invocations for one account await the account's refresh exchange.
C6_Witness ==
  \E i, j \in Inv :
    /\ i # j
    /\ inv[i].email = inv[j].email
    /\ Waiting(i, inv[i].email)
    /\ Waiting(j, inv[j].email)
    /\ inflight[inv[i].email] = 1

\* The scope set the claim gives each operation.
ClaimedScopes(op) ==
  CASE op \in {"getContacts", "searchContacts"} -> {READONLY}
    [] op \in {"createContact", "updateContact", "deleteContact"} -> {READWRITE}

\* validateScopes read the token and did not throw.
PassedValidation(i) == inv[i].valRead /\ inv[i].failedAt # "validate"

\* C7 as stated: a finished operation has reached its People API call iff
\* every scope it requires was in the granted set.
C7_ApiIffScopes ==
  \A i \in Inv :
    (Done(i) /\ inv[i].valRead)
      => (inv[i].nApi >= 1 <=> ClaimedScopes(inv[i].op) \subseteq inv[i].valGranted)

\* C7 amended: get and search require exactly {contacts.readonly}, create,
\* update and delete exactly {contacts}; validateScopes passes iff every
\* required scope is verbatim in the granted set it read, and the People API
\* call is reached only after it passed.
C7_ScopeGate ==
  \A i \in Inv :
    /\ inv[i].valRead
         => (PassedValidation(i)
               <=> ClaimedScopes(inv[i].op) \subseteq inv[i].valGranted)
    /\ inv[i].nApi >= 1
         => /\ inv[i].valRead
            /\ ClaimedScopes(inv[i].op) \subseteq inv[i].valGranted

\* getContacts with a token that grants only the full contacts scope fails
\* scope validation.
C7_Witness ==
  \E i \in Inv :
    /\ Done(i)
    /\ inv[i].op = "getContacts"
    /\ inv[i].valRead
    /\ inv[i].valGranted = {READWRITE}
    /\ inv[i].failedAt = "validate"
    /\ inv[i].nApi = 0

\* C8: a handler given a missing or invalid email, or lacking a required
\* parameter of its operation, fails with an InvalidParams McpError without
\* calling withTokenRenewal, validateScopes, getAuthenticatedClient or the API.
C8_ParamsBeforeAuth ==
  \A i \in Inv :
    (inv[i].pc \notin {"idle", "init"}
       /\ ~(inv[i].email \in Accounts /\ ParamFields(inv[i].op) \subseteq inv[i].present))
      => /\ Done(i)
         /\ inv[i].out.cls = MCP
         /\ inv[i].out.ecode = "InvalidParams"
         /\ inv[i].nRenew = 0
         /\ inv[i].nVal = 0
         /\ inv[i].nAcq = 0
         /\ inv[i].nBuild = 0
         /\ inv[i].nApi = 0

\* handleUpdateContact was called for a valid account without contact data.
C8_Witness ==
  \E i \in Inv :
    /\ Done(i)
    /\ inv[i].op = "updateContact"
    /\ inv[i].email \in Accounts
    /\ inv[i].present = {"resourceName"}
    /\ inv[i].failedAt = "params"

\* C9: one invocation of a service method performs at most one validateScopes
\* call, one client acquisition and one People API call, and it is over once
\* any of them has failed.
C9_NoRetry ==
  \A i \in Inv :
    /\ inv[i].nVal <= 1
    /\ inv[i].nAcq <= 1
    /\ inv[i].nBuild <= 1
    /\ inv[i].nApi <= 1
    /\ inv[i].failedAt \in SvcStages => Done(i)

\* A service method whose People API call failed has finished.
C9_Witness ==
  \E i \in Inv :
    /\ Done(i)
    /\ inv[i].failedAt = "api"
    /\ inv[i].nVal = 1
    /\ inv[i].nAcq = 1
    /\ inv[i].nApi = 1

\* C10: validateScopes never reads a token record that a refresh of the same
\* attempt replaces afterwards.
C10_ValidateSeesPostRefresh ==
  \A i \in Inv : ~inv[i].staleRead

C12_CaughtErrors ==
  [cls : {GSE, MCP, ERR, CTE, NONERR}, ecode : {"InternalError"},
   code : {"", "NotFound"}, details : {"none", "hint"}, dataUrl : {FALSE}]

\* The code and details the two mappings are said to give for error e.
C12_AsClaimed(e, mapped) ==
  /\ IsContactsError(mapped)
  /\ IsGoogleServiceError(e) =>
       /\ mapped.code = (IF e.code = "" THEN "GOOGLE_SERVICE_ERROR" ELSE e.code)
       /\ mapped.details = e.details
  /\ (IsError(e) /\ ~IsGoogleServiceError(e)) =>
       /\ mapped.code = "UNKNOWN_API_ERROR"
       /\ mapped.details = "none"
  /\ ~IsError(e) =>
       /\ mapped.code = "UNKNOWN_INTERNAL_ERROR"
       /\ mapped.details = "none"

\* C12: the catch block written out in getContacts and handleContactError
\* give a ContactsError with the same code and the same details for every
\* class of caught error, and for the error each failed method actually
\* caught the error it threw is the one the other mapping would have made.
C12_CatchEquivalent ==
  /\ \A e \in C12_CaughtErrors :
       /\ getContactsCatch(e).code = handleContactError(e).code
       /\ getContactsCatch(e).details = handleContactError(e).details
       /\ C12_AsClaimed(e, getContactsCatch(e))
       /\ C12_AsClaimed(e, handleContactError(e))
  /\ \A i \in Inv :
       inv[i].failedAt \in SvcStages =>
         LET e == inv[i].raised
             other == IF inv[i].op = "getContacts"
                      THEN handleContactError(e) ELSE getContactsCatch(e)
         IN /\ inv[i].svcErr.code = other.code
            /\ inv[i].svcErr.details = other.details
            /\ C12_AsClaimed(e, inv[i].svcErr)

\* getContacts caught a GoogleServiceError without data.code from the People
\* API and threw GOOGLE_SERVICE_ERROR, as handleContactError maps it.
C12_Witness ==
  \E i \in Inv :
    /\ inv[i].op = "getContacts"
    /\ inv[i].failedAt = "api"
    /\ IsGoogleServiceError(inv[i].raised) /\ inv[i].raised.code = ""
    /\ inv[i].svcErr.code = "GOOGLE_SERVICE_ERROR"
    /\ inv[i].svcErr = handleContactError(inv[i].raised)

\* C13: however concurrent handler invocations interleave, initializeServices
\* constructs at most one ContactsService and obtains the account manager at
\* most once; both are set as soon as any handler has passed
\* initializeServices, and every invocation calls withTokenRenewal and its
\* service method on that one instance.
C13_SingleInstances ==
  /\ contactsService <= 1
  /\ accountManager <= 1
  /\ \A i \in Inv :
       /\ inv[i].pc # "idle" => (contactsService = 1 /\ accountManager = 1)
       /\ inv[i].mgr # 0 => inv[i].mgr = 1
       /\ inv[i].svc # 0 => inv[i].svc = 1
       /\ inv[i].nRenew > 0 => inv[i].mgr = 1
       /\ inv[i].pc \in {"validate", "acquire", "acquireWait", "api"}
            => inv[i].svc = 1

\* Two handler invocations are in flight at once, both inside their service
\* method, on the one ContactsService and the one account manager.
C13_Witness ==
  \E i, j \in Inv :
    /\ i # j
    /\ inv[i].pc \in {"validate", "acquire", "acquireWait", "api"}
    /\ inv[j].pc \in {"validate", "acquire", "acquireWait", "api"}
    /\ inv[i].svc = 1 /\ inv[j].svc = 1
    /\ inv[i].mgr = 1 /\ inv[j].mgr = 1
    /\ contactsService = 1 /\ accountManager = 1


====
